---- MODULE Spec2Model ----
(***************************************************************************)
(* Model of src/process_bhive_data.py: the BHive pre-processing pipeline.  *)
(* Rows of a throughput CSV are filtered, disassembled and tokenized by    *)
(* two external tools, in batches handed to a multiprocessing.Pool, and    *)
(* the flattened result is saved by save_dataset.                          *)
(***************************************************************************)
EXTENDS Integers, Sequences, FiniteSets, TLC

(* ------------------------------ bounds --------------------------------- *)
\* longest CSV of the pipeline runs
MaxRows == 5
\* largest worker count of the pipeline runs
MaxProcs == 2
\* longest CSV of the runs over every row shape and tool fault
MaxFewRows == 2
\* longest CSV of the batching runs (rows all alike)
MaxTotalRows == 14
\* largest worker count of the batching runs
MaxWorkers == 3
\* longest CSV of the runs over main's arguments
MaxArgRows == 3
\* largest limit of those runs
MaxLimit == 2
\* largest CPU count of those runs
MaxCpus == 3
\* longest CSV and largest worker count of the runs checked for progress
MaxLiveRows == 3
MaxLiveProcs == 2

(* --------------------------- program constants ------------------------- *)
\* the 4 of "num_processes * 4"
BatchesPerWorker == 4
\* "if len(row) < 2"
MinFields == 2

(* ------------------------------ inputs --------------------------------- *)
BlockIds == {"deadbeef", "00ff"}

\* rows as csv.reader yields them: lists of strings
RowSet == { <<"deadbeef", "1.5">>, <<"00ff", "abc">>, <<"00ff", "2.5">> }

\* every row shape: no field, one field, a throughput that parses or not,
\* a third column
RowSetFull ==
  { <<>>, <<"00ff", "2.5", "extra">> }
  \cup { <<b>> : b \in BlockIds }
  \cup { <<b, t>> : b \in BlockIds, t \in {"1.5", "abc"} }

BoundedSeq(S, n) == UNION { [1..k -> S] : k \in 0..n }

(* What a child process does: it cannot be started (OSError with an errno) *)
(* or it exits with a return code and bytes on stdout.  A byte is a        *)
(* one-character string; "xFF" stands for a byte that is not valid UTF-8.  *)
Exit(rc, out) == [kind |-> "exit", rc |-> rc, out |-> out, errno |-> "none"]
OsErr(e) == [kind |-> "oserror", rc |-> 0, out |-> <<>>, errno |-> e]
\* ... or it never exits: communicate() has no timeout and blocks for good
Hang == [kind |-> "hang", rc |-> 0, out |-> <<>>, errno |-> "none"]

AsmBytes == << " ", "a", "\n" >>
XmlBytes == << "x", "\n" >>
BlankBytes == << " ", "\n" >>
BadBytes == << "a", "xFF" >>

DisasmResults ==
  { Exit(0, AsmBytes), Exit(0, BlankBytes), Exit(0, <<>>), Exit(1, AsmBytes),
    Exit(0, BadBytes), OsErr("ENOENT") }
TokResults ==
  { Exit(0, XmlBytes), Exit(0, BlankBytes), Exit(1, XmlBytes),
    Exit(0, BadBytes), OsErr("ENOENT"), OsErr("EACCES") }

(* ------------------------------ strings -------------------------------- *)
Whitespace == { " ", "\n", "\t" }

\* bytes.decode('utf-8'): raises UnicodeDecodeError on an invalid byte
CanDecode(bytes) == \A i \in 1..Len(bytes) : bytes[i] # "xFF"

RECURSIVE LStrip(_)
LStrip(s) ==
  IF s # <<>> /\ Head(s) \in Whitespace THEN LStrip(Tail(s)) ELSE s

RECURSIVE RStrip(_)
RStrip(s) ==
  IF s # <<>> /\ s[Len(s)] \in Whitespace
  THEN RStrip(SubSeq(s, 1, Len(s) - 1)) ELSE s

\* unicode.strip()
Strip(s) == RStrip(LStrip(s))

\* float(row[1]): the value in tenths, or ValueError
FloatTable == [ s \in {"1.5", "2.5"} |-> IF s = "1.5" THEN 15 ELSE 25 ]
FloatOk(s) == s \in DOMAIN FloatTable
Float(s) == FloatTable[s]

(* ------------------------------- state --------------------------------- *)
VARIABLES
  csv_rows,           \* list(csv.reader(f)) of the architecture's CSV
  limit,              \* main's limit; 0 stands for None (both are falsy)
  num_processes_arg,  \* main's num_processes: "None" or an integer
  num_cpus,           \* multiprocessing.cpu_count(); 0: NotImplementedError
  bad_block_ids,      \* load_bad_block_ids()
  disasm,             \* what ./bhive/benchmark/disasm does, per block id
  tokenizer,          \* what the tokenizer does, per block id
  pc,                 \* where main / process_csv_parallel stands
  num_processes,      \* worker count in effect
  rows,               \* rows after the limit
  batch_size,
  batches,
  pool,               \* "none", "open", "joined"
  next_task,          \* index (0-based) of the next batch a worker takes
  running,            \* batches a worker is processing
  cache,              \* imap's results by batch index
  out_of_order,       \* some result arrived before an earlier batch's
  yielded,            \* batches whose result the imap iterator has yielded
  processed_results,
  dataset,            \* what process_csv_parallel returned
  error,              \* the exception process_csv_parallel caught, or "none"
  diag,               \* diagnostics printed so far
  invoked,            \* tool invocations attempted so far, per tool
  taken,              \* how many times each batch was taken off the queue
  output_file,        \* what torch.save wrote, or "absent"
  saves               \* the calls of save_dataset: what each one met

inputs == << csv_rows, limit, num_processes_arg, num_cpus, bad_block_ids,
             disasm, tokenizer >>
sched == << num_processes, rows, batch_size, batches >>
workers == << next_task, running, cache, out_of_order, invoked, taken >>
outputs == << output_file, saves >>
vars == << inputs, sched, workers, pc, pool, yielded, processed_results, dataset,
           error, diag, outputs >>

(* ----------------------- the two external tools ------------------------ *)
StrVal(v, d) == [t |-> "str", v |-> v, diag |-> d]
NoneVal(d) == [t |-> "none", v |-> <<>>, diag |-> d]
Raised(d) == [t |-> "raise", v |-> <<>>, diag |-> d]
Hung(d) == [t |-> "hang", v |-> <<>>, diag |-> d]

\* Popen + communicate + the returncode check + decode + strip, shared by
\* both tools; the except clauses differ and are the callers'
RunTool(r, onCalled, onOsError) ==
  IF r.kind = "oserror" THEN NoneVal({onOsError})
  ELSE IF r.kind = "hang" THEN Hung({})
  ELSE IF r.rc # 0 THEN NoneVal({onCalled})
  ELSE IF ~CanDecode(r.out) THEN Raised({})
  ELSE StrVal(Strip(r.out), {})

disassemble_block(block_id) ==
  RunTool(disasm[block_id], "Error disassembling block",
          "Error running disasm")

\* without the "except OSError" clause: the error escapes
tokenize_block_unhandled(block_id) ==
  LET r == tokenizer[block_id] IN
  IF r.kind = "oserror" THEN Raised({})
  ELSE RunTool(r, "Error tokenizing block", "OSError tokenizing block")

tokenize_block(block_id) ==
  LET r == tokenizer[block_id] IN
  RunTool(r, "Error tokenizing block",
          IF r.errno = "ENOENT" THEN "Tokenizer not found"
          ELSE "OSError tokenizing block")

\* as "if code_intel is None" would: the empty string passes
FalsyNoneOnly(x) == x.t = "none"

\* "if not code_intel": None and the empty string are falsy
Falsy(x) == x.t = "none" \/ (x.t = "str" /\ x.v = <<>>)

(* ----------------------------- process_block --------------------------- *)
Rec(r, d, c) == [t |-> "rec", rec |-> r, diag |-> d, calls |-> c]
NoRec(d, c) == [t |-> "none", rec |-> <<>>, diag |-> d, calls |-> c]
RaisedRec(d, c) == [t |-> "raise", rec |-> <<>>, diag |-> d, calls |-> c]
\* process_block never returns: it waits in a tool call
HungRec(d, c) == [t |-> "hang", rec |-> <<>>, diag |-> d, calls |-> c]

\* without the exclusion test
ExcludedNever(block_id, bad) == FALSE

\* "if block_id in bad_block_ids"
Excluded(block_id, bad) == block_id \in bad

process_block(row, bad) ==
  IF Len(row) < MinFields THEN NoRec({}, <<>>)
  ELSE IF Excluded(row[1], bad) THEN NoRec({}, <<>>)
  ELSE IF ~FloatOk(row[2])
  THEN NoRec({"Could not convert throughput"}, <<>>)
  ELSE
    LET code_intel == disassemble_block(row[1]) IN
    IF code_intel.t = "hang" THEN HungRec(code_intel.diag, <<"disasm">>)
    ELSE IF code_intel.t = "raise"
    THEN RaisedRec(code_intel.diag, <<"disasm">>)
    ELSE IF Falsy(code_intel) THEN NoRec(code_intel.diag, <<"disasm">>)
    ELSE
      LET code_xml == tokenize_block(row[1])
          d == code_intel.diag \cup code_xml.diag
          c == <<"disasm", "tokenizer">>
      IN
      IF code_xml.t = "hang" THEN HungRec(d, c)
      ELSE IF code_xml.t = "raise" THEN RaisedRec(d, c)
      ELSE IF Falsy(code_xml) THEN NoRec(d, c)
      ELSE Rec(<< row[1], Float(row[2]), code_intel.v, code_xml.v >>, d, c)

(* ----------------------------- process_batch --------------------------- *)
\* the loop of process_batch from row i on, results so far in acc; an
\* exception of process_block ends the loop and escapes, and a
\* process_block that never returns leaves the loop waiting in row i
RECURSIVE BatchLoop(_, _, _, _, _, _)
BatchLoop(batch, bad, i, acc, d, c) ==
  IF i > Len(batch) THEN [t |-> "ok", v |-> acc, diag |-> d, calls |-> c]
  ELSE
    LET result == process_block(batch[i], bad) IN
    IF result.t \in {"raise", "hang"}
    THEN [t |-> result.t, v |-> <<>>, diag |-> d \cup result.diag,
          calls |-> c \o result.calls]
    ELSE BatchLoop(batch, bad, i + 1,
                   IF result.t = "rec" THEN Append(acc, result.rec) ELSE acc,
                   d \cup result.diag, c \o result.calls)

\* a loop that returns at the first row without a record
RECURSIVE BatchLoopBreak(_, _, _, _, _, _)
BatchLoopBreak(batch, bad, i, acc, d, c) ==
  IF i > Len(batch) THEN [t |-> "ok", v |-> acc, diag |-> d, calls |-> c]
  ELSE
    LET result == process_block(batch[i], bad) IN
    IF result.t = "raise"
    THEN [t |-> "raise", v |-> <<>>, diag |-> d \cup result.diag,
          calls |-> c \o result.calls]
    ELSE IF result.t = "none"
    THEN [t |-> "ok", v |-> acc, diag |-> d \cup result.diag,
          calls |-> c \o result.calls]
    ELSE BatchLoopBreak(batch, bad, i + 1, Append(acc, result.rec),
                        d \cup result.diag, c \o result.calls)

process_batch_break(batch, bad) ==
  BatchLoopBreak(batch, bad, 1, <<>>, {}, <<>>)

process_batch(batch, bad) == BatchLoop(batch, bad, 1, <<>>, {}, <<>>)

(* --------------------------- batch scheduling -------------------------- *)
Min(a, b) == IF a < b THEN a ELSE b
Max(a, b) == IF a > b THEN a ELSE b

\* num_processes as lines 139-144 leave it
DefaultProcesses(arg, cpus) ==
  IF ~arg.given
  THEN IF cpus = 0 THEN 1                      \* NotImplementedError
       ELSE IF cpus > 1 THEN Max(1, cpus - 1) ELSE 1
  ELSE arg.n

\* "if limit: rows = rows[:limit]"
ApplyLimit(rs, lim) == IF lim # 0 THEN SubSeq(rs, 1, Min(lim, Len(rs))) ELSE rs

\* Python 2's integer division, without float() and ceil
FloorDiv(a, b) == a \div b

\* int(math.ceil(float(a) / b)) for a >= 0, b > 0 (exact on these sizes)
CeilDiv(a, b) == (a + b - 1) \div b

BatchSize(total_rows, procs) ==
  LET batch_size0 == CeilDiv(total_rows, procs * BatchesPerWorker) IN
  IF batch_size0 = 0 THEN 1 ELSE batch_size0

\* range(start, stop, step), step > 0
RECURSIVE PyRange(_, _, _)
PyRange(start, stop, step) ==
  IF start >= stop THEN <<>>
  ELSE <<start>> \o PyRange(start + step, stop, step)

\* s[i:j] for 0 <= i <= j
Slice(s, i, j) == SubSeq(s, i + 1, Min(j, Len(s)))

\* slices one row too long: rows[i:i+batch_size+1]
MakeBatchesOverlap(rs, bs) ==
  LET starts == PyRange(0, Len(rs), bs) IN
  [ k \in 1..Len(starts) |-> Slice(rs, starts[k], starts[k] + bs + 1) ]

\* slices that leave a row out between two batches: a step of batch_size + 1
MakeBatchesGap(rs, bs) ==
  LET starts == PyRange(0, Len(rs), bs + 1) IN
  [ k \in 1..Len(starts) |-> Slice(rs, starts[k], starts[k] + bs) ]

\* [rows[i:i+batch_size] for i in range(0, total_rows, batch_size)]
MakeBatches(rs, bs) ==
  LET starts == PyRange(0, Len(rs), bs) IN
  [ k \in 1..Len(starts) |-> Slice(rs, starts[k], starts[k] + bs) ]

\* a flattening that puts the later sublists first
RECURSIVE FlattenReversed(_)
FlattenReversed(lists) ==
  IF lists = <<>> THEN <<>>
  ELSE FlattenReversed(Tail(lists)) \o Head(lists)

\* [item for sublist in processed_results for item in sublist]
RECURSIVE Flatten(_)
Flatten(lists) ==
  IF lists = <<>> THEN <<>> ELSE Head(lists) \o Flatten(Tail(lists))

Pending == [t |-> "pending", v |-> <<>>]

(* process_csv_parallel, lines 139-171: resolve the worker count, read and *)
(* truncate the rows, and either return at once (no rows), fail (the       *)
(* division by num_processes * 4 = 0 is caught by the outer except), or    *)
(* build the batches, create the pool and hand imap every batch.           *)
Start ==
  /\ pc = "start"
  /\ LET procs == DefaultProcesses(num_processes_arg, num_cpus)
         rs == ApplyLimit(csv_rows, limit)
     IN
     /\ num_processes' = procs
     /\ rows' = rs
     /\ IF Len(rs) = 0
        THEN /\ pc' = "returned"
             /\ diag' = diag \cup {"No rows to process."}
             /\ UNCHANGED << batch_size, batches, pool, cache, taken,
                             error >>
        ELSE IF procs * BatchesPerWorker = 0
        THEN /\ pc' = "returned"
             /\ error' = "ZeroDivisionError"
             /\ diag' = diag \cup {"Error processing CSV"}
             /\ UNCHANGED << batch_size, batches, pool, cache, taken >>
        ELSE LET bs == BatchSize(Len(rs), procs)
                 bt == MakeBatches(rs, bs)
             IN
             /\ batch_size' = bs
             /\ batches' = bt
             /\ pool' = "open"
             /\ cache' = [ k \in 1..Len(bt) |-> Pending ]
             /\ taken' = [ k \in 1..Len(bt) |-> 0 ]
             /\ pc' = "collect"
             /\ UNCHANGED << error, diag >>
  /\ UNCHANGED << inputs, next_task, running, out_of_order, yielded,
                  invoked, processed_results, dataset, outputs >>

\* a worker that takes a task and leaves it on the queue for the next one
WorkerTakeAgain ==
  /\ pool = "open"
  /\ next_task < Len(batches)
  /\ Cardinality(running) < num_processes
  /\ running' = running \cup {next_task + 1}
  /\ taken' = [taken EXCEPT ![next_task + 1] = @ + 1]
  /\ UNCHANGED << inputs, sched, pc, pool, next_task, cache, out_of_order,
                  yielded, invoked, processed_results, dataset, error, diag,
                  outputs >>

(* A worker of the pool takes the next task off the task queue: tasks are  *)
(* queued in batch order and a worker holds one task at a time.            *)
WorkerTake ==
  /\ pool = "open"
  /\ next_task < Len(batches)
  /\ Cardinality(running) < num_processes
  /\ next_task' = next_task + 1
  /\ running' = running \cup {next_task + 1}
  /\ taken' = [taken EXCEPT ![next_task + 1] = @ + 1]
  /\ UNCHANGED << inputs, sched, pc, pool, cache, out_of_order, yielded,
                  invoked, processed_results, dataset, error, diag,
                  outputs >>

CountOf(calls, tool) == Cardinality({ i \in 1..Len(calls) : calls[i] = tool })

(* A worker runs process_batch on its batch to the end and puts the        *)
(* outcome, the list or the exception, on the result queue; it never gets  *)
(* there when a tool call of the batch does not return.                    *)
WorkerFinish(k) ==
  /\ k \in running
  /\ LET r == process_batch(batches[k], bad_block_ids) IN
     /\ r.t # "hang"
     /\ cache' = [cache EXCEPT ![k] = [t |-> r.t, v |-> r.v]]
     /\ out_of_order' =
          (out_of_order \/ \E j \in 1..(k - 1) : cache[j].t = "pending")
     /\ diag' = diag \cup r.diag
     /\ invoked' = [ tool \in DOMAIN invoked |->
                       invoked[tool] + CountOf(r.calls, tool) ]
  /\ running' = running \ {k}
  /\ UNCHANGED << inputs, sched, pc, pool, next_task, taken, yielded,
                  processed_results, dataset, error, outputs >>

\* as pool.imap_unordered would: any result that has arrived
ImapNextUnordered ==
  { k \in 1..Len(batches) : k \notin yielded /\ cache[k].t # "pending" }

\* the batch whose result pool.imap's iterator yields next: IMapIterator
\* hands results out by index, whatever the order they arrive in
ImapNext == { Cardinality(yielded) + 1 }

(* One pass of the for loop at line 186: the next result is there and is   *)
(* a list, which is appended.                                              *)
CollectResult ==
  /\ pc = "collect"
  /\ \E k \in ImapNext :
       /\ k \in 1..Len(batches)
       /\ cache[k].t = "ok"
       /\ yielded' = yielded \cup {k}
       /\ processed_results' = Append(processed_results, cache[k].v)
  /\ UNCHANGED << inputs, sched, workers, pc, pool, dataset, error, diag,
                  outputs >>

(* The next result is an exception: the iterator re-raises it in the       *)
(* controller and the loop is left for the finally clause.                 *)
CollectRaise ==
  /\ pc = "collect"
  /\ \E k \in ImapNext :
       /\ k \in 1..Len(batches)
       /\ cache[k].t = "raise"
       /\ yielded' = yielded \cup {k}
  /\ error' = "UnicodeDecodeError"
  /\ pc' = "finally"
  /\ UNCHANGED << inputs, sched, workers, pool, processed_results, dataset,
                  diag, outputs >>

(* Every batch was yielded: the loop ends.                                 *)
CollectDone ==
  /\ pc = "collect"
  /\ Cardinality(yielded) = Len(batches)
  /\ pc' = "finally"
  /\ UNCHANGED << inputs, sched, workers, pool, yielded, processed_results,
                  dataset, error, diag, outputs >>

\* a return that does not wait for the workers
JoinNoWait == TRUE

\* pool.join() returns once the workers have run every queued task
JoinReady == next_task = Len(batches) /\ running = {}

(* finally: pool.close(); pool.join(), then lines 193-200 on the normal    *)
(* path or the except clause of lines 202-206 after an exception.          *)
Finally ==
  /\ pc = "finally"
  /\ JoinReady
  /\ pool' = "joined"
  /\ IF error = "none"
     THEN LET ds == Flatten(processed_results) IN
          /\ dataset' = ds
          /\ diag' = IF Len(rows) - Len(ds) > 0
                     THEN diag \cup {"Skipped blocks"} ELSE diag
     ELSE /\ dataset' = <<>>
          /\ diag' = diag \cup {"Error processing CSV"}
  /\ pc' = "returned"
  /\ UNCHANGED << inputs, sched, workers, yielded, processed_results, error,
                  outputs >>

(* ------------------------------ save_dataset --------------------------- *)
Absent == [written |-> FALSE, data |-> <<>>]

\* how os.makedirs can end; it is not called ("none") when the directory
\* is there
MakedirsOutcomes(dir_exists) ==
  IF dir_exists THEN {"none"} ELSE {"ok", "EEXIST", "EACCES"}

\* how torch.save can end; it is not called ("none") after the return of
\* line 218
SaveOutcomes(dir_exists, mk) ==
  IF ~dir_exists /\ mk \notin {"ok", "EEXIST"} THEN {"none"}
  ELSE {"ok", "IOError"}

\* a save_dataset for which any OSError of os.makedirs is final
save_dataset_any_oserror(ds, dir_exists, mk, wr) ==
  IF ~dir_exists /\ mk # "ok"
  THEN [file |-> Absent, diag |-> {"Error creating directory"}]
  ELSE IF wr = "ok"
  THEN [file |-> [written |-> TRUE, data |-> SubSeq(ds, 2, Len(ds))],
        diag |-> {"Dataset saved"}]
  ELSE [file |-> Absent, diag |-> {"Error saving dataset"}]

\* save_dataset(dataset, arch) in an environment where the output directory
\* exists or not, os.makedirs ends as mk and torch.save as wr
save_dataset(ds, dir_exists, mk, wr) ==
  IF ~dir_exists /\ mk \notin {"ok", "EEXIST"}
  THEN [file |-> Absent, diag |-> {"Error creating directory"}]
  ELSE IF wr = "ok"
  THEN [file |-> [written |-> TRUE, data |-> SubSeq(ds, 2, Len(ds))],
        diag |-> {"Dataset saved"}]
  ELSE [file |-> Absent, diag |-> {"Error saving dataset"}]

\* a main that saves whatever process_csv_parallel returned
MainSaveAlways ==
  /\ pc = "returned"
  /\ \E dir_exists \in BOOLEAN :
     \E mk \in MakedirsOutcomes(dir_exists) :
     \E wr \in SaveOutcomes(dir_exists, mk) :
       LET s == save_dataset(dataset, dir_exists, mk, wr) IN
       /\ output_file' = s.file
       /\ diag' = diag \cup s.diag
       /\ saves' = Append(saves, [dir_exists |-> dir_exists, mk |-> mk,
                                  wr |-> wr])
  /\ pc' = "done"
  /\ UNCHANGED << inputs, sched, workers, pool, yielded, processed_results,
                  dataset, error >>

(* main, lines 259-261: a non-empty dataset is saved.                      *)
MainSave ==
  /\ pc = "returned"
  /\ dataset # <<>>
  /\ \E dir_exists \in BOOLEAN :
     \E mk \in MakedirsOutcomes(dir_exists) :
     \E wr \in SaveOutcomes(dir_exists, mk) :
       LET s == save_dataset(dataset, dir_exists, mk, wr) IN
       /\ output_file' = s.file
       /\ diag' = diag \cup s.diag
       /\ saves' = Append(saves, [dir_exists |-> dir_exists, mk |-> mk,
                                  wr |-> wr])
  /\ pc' = "done"
  /\ UNCHANGED << inputs, sched, workers, pool, yielded, processed_results,
                  dataset, error >>

(* main, lines 262-263: nothing to save.                                   *)
MainNoSave ==
  /\ pc = "returned"
  /\ dataset = <<>>
  /\ diag' = diag \cup {"No data to save."}
  /\ pc' = "done"
  /\ UNCHANGED << inputs, sched, workers, pool, yielded, processed_results,
                  dataset, error, outputs >>

(* --------------------------- specifications ---------------------------- *)
Given(n) == [given |-> TRUE, n |-> n]
NotGiven == [given |-> FALSE, n |-> 0]

AllOk == [ d |-> [ b \in BlockIds |-> Exit(0, AsmBytes) ],
           t |-> [ b \in BlockIds |-> Exit(0, XmlBytes) ] ]

\* tool behaviours of the pipeline runs: both tools work, or the
\* disassembler fails or prints undecodable bytes for block 00ff, or the
\* tokenizer is not built
PipelineEnvs ==
  { AllOk }
  \cup { [AllOk EXCEPT !.d["00ff"] = r] :
           r \in { Exit(1, AsmBytes), Exit(0, BadBytes) } }
  \cup { [AllOk EXCEPT !.t = [ b \in BlockIds |-> OsErr("ENOENT") ]] }

\* every behaviour of one tool on block 00ff, the rest working
FaultEnvs ==
  { [AllOk EXCEPT !.d["00ff"] = r] : r \in DisasmResults }
  \cup { [AllOk EXCEPT !.t["00ff"] = r] : r \in TokResults }

InitRun ==
  /\ pc = "start"
  /\ num_processes = 0
  /\ rows = <<>>
  /\ batch_size = 0
  /\ batches = <<>>
  /\ pool = "none"
  /\ next_task = 0
  /\ running = {}
  /\ cache = <<>>
  /\ out_of_order = FALSE
  /\ yielded = {}
  /\ processed_results = <<>>
  /\ dataset = <<>>
  /\ error = "none"
  /\ diag = {}
  /\ invoked = [ tool \in {"disasm", "tokenizer"} |-> 0 ]
  /\ taken = <<>>
  /\ output_file = Absent
  /\ saves = <<>>

\* several batches, several workers, a few row kinds and tool behaviours;
\* the longest CSV goes to one worker, and each further worker gets a CSV
\* one row shorter
InitPipeline ==
  /\ \E n \in 1..MaxProcs :
       /\ num_processes_arg = Given(n)
       /\ csv_rows \in BoundedSeq(RowSet, MaxRows + 1 - n)
  /\ \E e \in PipelineEnvs :
       /\ disasm = e.d /\ tokenizer = e.t
       /\ bad_block_ids \in (IF e = AllOk THEN { {}, {"00ff"} } ELSE { {} })

\* a few rows of every shape, every exclusion set, every tool fault
InitFewRows ==
  /\ csv_rows \in BoundedSeq(RowSetFull, MaxFewRows)
  /\ num_processes_arg = Given(1)
  /\ bad_block_ids \in SUBSET BlockIds
  /\ \E e \in FaultEnvs : disasm = e.d /\ tokenizer = e.t

\* many rows, all alike and all good: the batch sizes
InitBatching ==
  /\ csv_rows \in { [ i \in 1..n |-> <<"deadbeef", "1.5">> ] :
                      n \in 0..MaxTotalRows }
  /\ num_processes_arg \in { Given(n) : n \in 1..MaxWorkers }
  /\ bad_block_ids = {}
  /\ disasm = AllOk.d /\ tokenizer = AllOk.t

\* main's three arguments: a limit or none, an explicit worker count or the
\* default of the machine's CPU count, over a few rows
InitArgs ==
  /\ csv_rows \in BoundedSeq(RowSet, MaxArgRows)
  /\ limit \in 0..MaxLimit
  /\ \/ num_processes_arg = NotGiven /\ num_cpus \in 0..MaxCpus
     \/ num_processes_arg \in { Given(n) : n \in 0..1 } /\ num_cpus = 1
  /\ bad_block_ids = {}
  /\ disasm = AllOk.d /\ tokenizer = AllOk.t

Init ==
  /\ \/ /\ InitPipeline \/ InitFewRows \/ InitBatching
        /\ limit = 0
        /\ num_cpus = 1
     \/ InitArgs
  /\ InitRun

Next ==
  \/ Start
  \/ WorkerTake
  \/ \E k \in 1..Len(batches) : WorkerFinish(k)
  \/ CollectResult
  \/ CollectRaise
  \/ CollectDone
  \/ Finally
  \/ MainSave
  \/ MainNoSave

Spec == Init /\ [][Next]_vars

\* the runs of the progress properties: every tool returns (block 00ff's
\* disassembly undecodable in one of them), or one tool never returns for
\* block 00ff
LiveEnvs ==
  { AllOk, [AllOk EXCEPT !.d["00ff"] = Exit(0, BadBytes)],
    [AllOk EXCEPT !.d["00ff"] = Hang], [AllOk EXCEPT !.t["00ff"] = Hang] }

InitLive ==
  /\ csv_rows \in BoundedSeq(RowSet, MaxLiveRows)
  /\ limit = 0
  /\ num_cpus = 1
  /\ num_processes_arg \in { Given(n) : n \in 1..MaxLiveProcs }
  /\ bad_block_ids = {}
  /\ \E e \in LiveEnvs : disasm = e.d /\ tokenizer = e.t
  /\ InitRun

\* The operating system runs every process that can run: the controller
\* and each worker take their next step in the end, and a worker whose
\* tool calls all return finishes its batch.
Fairness ==
  /\ WF_vars(Start)
  /\ WF_vars(WorkerTake)
  /\ \A k \in 1..MaxLiveRows : WF_vars(WorkerFinish(k))
  /\ WF_vars(CollectResult)
  /\ WF_vars(CollectRaise)
  /\ WF_vars(CollectDone)
  /\ WF_vars(Finally)
  /\ WF_vars(MainSave)
  /\ WF_vars(MainNoSave)

LiveSpec == InitLive /\ [][Next]_vars /\ Fairness

(* ======================================================================= *)
(* Properties                                                              *)
(* ======================================================================= *)
Returned == pc \in {"returned", "done"}
NormalReturn == Returned /\ pool = "joined" /\ error = "none"
AllFinished ==
  batches # <<>> /\ \A k \in 1..Len(batches) : cache[k].t # "pending"
CacheValues == [ k \in 1..Len(batches) |-> cache[k].v ]
RemoveAt(s, i) == SubSeq(s, 1, i - 1) \o SubSeq(s, i + 1, Len(s))
Occurs(x, s) == \E j \in 1..Len(s) : s[j] = x

\* a tool run that the claims call a success: exit 0, output not blank
ToolFine(r) == r.kind = "exit" /\ r.rc = 0 /\ Strip(r.out) # <<>>
\* ... and the output is text
ToolText(r) == ToolFine(r) /\ CanDecode(r.out)
\* a tool run that fails without an exception
ToolFails(r) ==
  \/ r.kind = "oserror"
  \/ r.rc # 0
  \/ CanDecode(r.out) /\ Strip(r.out) = <<>>

Admitted(row) ==
  Len(row) >= 2 /\ row[1] \notin bad_block_ids /\ FloatOk(row[2])

\* the rows of the claims' "per-row error": rejected by the filter, or a
\* tool failure that the tool wrappers catch
PerRowError(row) ==
  \/ ~Admitted(row)
  \/ ToolFails(disasm[row[1]])
  \/ ToolText(disasm[row[1]]) /\ ToolFails(tokenizer[row[1]])

\* the records of the rows of rs, row by row, in row order
RECURSIVE RecordsOf(_)
RecordsOf(rs) ==
  IF rs = <<>> THEN <<>>
  ELSE LET r == process_block(Head(rs), bad_block_ids) IN
       (IF r.t = "rec" THEN <<r.rec>> ELSE <<>>) \o RecordsOf(Tail(rs))

\* what a run over the rows rs returns: nothing once a row raises
RunOver(rs) ==
  IF \E i \in 1..Len(rs) : process_block(rs[i], bad_block_ids).t = "raise"
  THEN <<>> ELSE RecordsOf(rs)

(* C1 (stated as claimed; the code violates it): the number of records    *)
(* save_dataset writes equals the number of rows that passed the filter   *)
(* and both tools.                                                        *)
C1_SavedCountIsPassedCount ==
  output_file.written =>
    Len(output_file.data) =
      Cardinality({ i \in 1..Len(rows) :
                      process_block(rows[i], bad_block_ids).t = "rec" })

(* C2: whatever order the workers finish in, the results are collected    *)
(* in dispatch order and the dataset returned is the concatenation of the *)
(* per-batch results, batch 1 first.                                      *)
C2_DispatchOrder ==
  /\ \A j \in 1..Len(processed_results) :
       cache[j].t = "ok" /\ processed_results[j] = cache[j].v
  /\ NormalReturn => dataset = Flatten(CacheValues)

C2_Witness ==
  /\ pc = "returned" /\ error = "none" /\ out_of_order
  /\ Len(dataset) >= 2 /\ dataset[1] # dataset[2]
  /\ cache[1].v # <<>> /\ cache[2].v # <<>>

(* C3: concatenating the results of the batches in dispatch order gives   *)
(* what process_batch gives on the whole row list; one of the batches     *)
(* raises exactly when the whole list does.                               *)
C3_Partitioning ==
  /\ AllFinished =>
       LET whole == process_batch(rows, bad_block_ids) IN
       IF \A k \in 1..Len(batches) : cache[k].t = "ok"
       THEN whole.t = "ok" /\ whole.v = Flatten(CacheValues)
       ELSE whole.t = "raise"
  /\ NormalReturn => dataset = process_batch(rows, bad_block_ids).v

C3_Witness ==
  /\ NormalReturn
  /\ Len(batches) >= 3
  /\ \E k \in 1..Len(batches) : Len(batches[k]) >= 2
  /\ dataset # <<>> /\ Len(dataset) < Len(rows)

(* C4 (stated as claimed; the code violates it): a row yields a record    *)
(* iff it has two fields, is not excluded, its throughput parses and both *)
(* tools exit 0 with output that is not blank.                            *)
C4_RecordIffToolsFine ==
  Returned =>
    \A i \in 1..Len(rows) :
      (process_block(rows[i], bad_block_ids).t = "rec")
        <=> /\ Admitted(rows[i])
            /\ ToolFine(disasm[rows[i][1]])
            /\ ToolFine(tokenizer[rows[i][1]])

Populated(rec) ==
  /\ Len(rec) = 4
  /\ rec[1] \in BlockIds
  /\ rec[2] \in Int
  /\ rec[3] # <<>> /\ rec[4] # <<>>

(* C4, amended: a row yields a record iff it has two fields, is not       *)
(* excluded, its throughput parses and both tools exit 0 with output that *)
(* decodes as UTF-8 and is not blank; every record of a batch result and  *)
(* of the dataset has its four fields populated.                          *)
C4_RecordIffToolsText ==
  /\ Returned =>
       \A i \in 1..Len(rows) :
         (process_block(rows[i], bad_block_ids).t = "rec")
           <=> /\ Admitted(rows[i])
               /\ ToolText(disasm[rows[i][1]])
               /\ ToolText(tokenizer[rows[i][1]])
  /\ \A k \in 1..Len(batches) :
       /\ \A j \in 1..Len(cache[k].v) : Populated(cache[k].v[j])
       /\ (cache[k].t # "pending" /\ Len(batches[k]) = 1) =>
            ((cache[k].t = "ok" /\ Len(cache[k].v) = 1)
               <=> /\ Admitted(batches[k][1])
                   /\ ToolText(disasm[batches[k][1][1]])
                   /\ ToolText(tokenizer[batches[k][1][1]]))
  /\ \A j \in 1..Len(dataset) : Populated(dataset[j])

C4_Witness ==
  /\ pc = "done"
  /\ Len(rows) = 2 /\ Len(dataset) = 1
  /\ Admitted(rows[1]) /\ Admitted(rows[2])
  /\ \E i \in 1..2 : disasm[rows[i][1]] = Exit(0, BlankBytes)

(* C5 (stated as claimed; the code violates it): an exception in one      *)
(* batch removes at most that batch's records: the records of every batch *)
(* that returned a list are in the dataset process_csv_parallel returns.  *)
C5_OtherBatchesSurvive ==
  (Returned /\ pool = "joined") =>
    \A k \in 1..Len(batches) :
      cache[k].t = "ok" =>
        \A j \in 1..Len(cache[k].v) : Occurs(cache[k].v[j], dataset)

(* C6: a row with a per-row error is dropped alone: the dataset is the    *)
(* one the run returns without that row, so every other row yields what   *)
(* it yields without it, in the same order; and the rows                  *)
(* [("deadbeef","1.5"), ("00ff","abc")] with nothing excluded and working *)
(* tools give exactly one record, for deadbeef.                           *)
C6_PerRowErrorDropsOnlyThatRow ==
  (Returned /\ pool = "joined") =>
    /\ \A i \in 1..Len(rows) :
         PerRowError(rows[i]) => dataset = RunOver(RemoveAt(rows, i))
    /\ ( /\ rows = << <<"deadbeef", "1.5">>, <<"00ff", "abc">> >>
         /\ bad_block_ids = {}
         /\ \A b \in BlockIds : ToolText(disasm[b]) /\ ToolText(tokenizer[b]) )
       => Len(dataset) = 1 /\ dataset[1][1] = "deadbeef"

C6_Witness ==
  /\ pc = "returned" /\ pool = "joined"
  /\ \E k \in 1..Len(batches) :
       /\ Len(batches[k]) >= 2
       /\ PerRowError(batches[k][1])
       /\ Len(cache[k].v) >= 1
  /\ \E i \in 1..Len(rows) : Len(rows[i]) >= 2 /\ ~FloatOk(rows[i][2])
  /\ Len(dataset) >= 2

(* C7: once process_csv_parallel has returned after creating the pool,    *)
(* on the normal path or after an exception, the pool is joined: no       *)
(* worker holds a batch and no batch is left for a worker to take.        *)
C7_PoolJoinedOnReturn ==
  (Returned /\ pool # "none") =>
    pool = "joined" /\ running = {} /\ next_task = Len(batches)

C7_Witness ==
  /\ pc = "returned" /\ error # "none" /\ pool = "joined"
  /\ Len(batches) >= 3
  /\ Cardinality(yielded) < Len(batches)

TokenizerAbsent == \A b \in BlockIds : tokenizer[b] = OsErr("ENOENT")
Hint == "Tokenizer not found"

(* C8: with the tokenizer executable absent every tokenize_block call     *)
(* prints the build hint and returns None without raising; the run ends   *)
(* without an error, with no record and nothing saved.                    *)
C8_TokenizerAbsent ==
  TokenizerAbsent =>
    /\ \A b \in BlockIds :
         tokenize_block(b).t = "none" /\ Hint \in tokenize_block(b).diag
    /\ invoked["tokenizer"] > 0 => Hint \in diag
    /\ \A k \in 1..Len(batches) : cache[k].t # "raise" /\ cache[k].v = <<>>
    /\ error = "none"
    /\ Returned => dataset = <<>>
    /\ ~output_file.written

C8_Witness ==
  /\ TokenizerAbsent
  /\ pc = "done"
  /\ invoked["tokenizer"] >= 2
  /\ Hint \in diag /\ "No data to save." \in diag

(* C9: no record of the dataset has an excluded block id; when every      *)
(* block id of the input is excluded the run ends without an error and    *)
(* the dataset is empty.                                                  *)
C9_NoBadBlockInDataset ==
  /\ \A j \in 1..Len(dataset) : dataset[j][1] \notin bad_block_ids
  /\ \A k \in 1..Len(batches) :
       \A j \in 1..Len(cache[k].v) : cache[k].v[j][1] \notin bad_block_ids
  /\ ( /\ Returned
       /\ \A i \in 1..Len(rows) :
            Len(rows[i]) >= 1 => rows[i][1] \in bad_block_ids )
     => dataset = <<>> /\ error = "none"

C9_Witness ==
  /\ pc = "done" /\ dataset = <<>> /\ ~output_file.written
  /\ Len(rows) = 2
  /\ rows[1] = <<"deadbeef", "1.5">> /\ rows[2] = <<"00ff", "2.5", "extra">>
  /\ bad_block_ids = BlockIds
  /\ ToolText(disasm["deadbeef"]) /\ ToolText(tokenizer["deadbeef"])

(* C10: with at least one row and one worker the batch size is            *)
(* ceil(total_rows / (4 * worker_count)), at least 1, and the number of   *)
(* batches is ceil(total_rows / batch_size), between 1 and                *)
(* 4 * worker_count.                                                      *)
C10_BatchSize ==
  pool # "none" =>
    LET n == Len(rows)
        w == num_processes
    IN
    /\ n >= 1 /\ w >= 1
    /\ batch_size >= 1
    /\ batch_size * (BatchesPerWorker * w) >= n
    /\ (batch_size - 1) * (BatchesPerWorker * w) < n
    /\ Len(batches) * batch_size >= n
    /\ (Len(batches) - 1) * batch_size < n
    /\ Len(batches) >= 1
    /\ Len(batches) <= BatchesPerWorker * w

C10_Witness ==
  /\ pool # "none"
  /\ batch_size >= 3
  /\ Len(batches) = BatchesPerWorker * num_processes
  /\ Len(rows) < batch_size * Len(batches)

\* the rows main's limit leaves: all of them without a limit, else the first
\* limit ones (all, when the CSV is shorter)
LimitPrefix ==
  /\ Len(rows) = (IF limit = 0 \/ limit > Len(csv_rows)
                  THEN Len(csv_rows) ELSE limit)
  /\ \A i \in 1..Len(rows) : rows[i] = csv_rows[i]

\* the number of rows in the batches before batch k
RECURSIVE RowsBefore(_)
RowsBefore(k) == IF k = 1 THEN 0 ELSE RowsBefore(k - 1) + Len(batches[k - 1])

(* C11: once the batches are built they partition the limit-truncated row *)
(* list into contiguous slices: batch k holds exactly the rows that       *)
(* follow those of batches 1..k-1, the batches together hold every row    *)
(* once (their concatenation is the row list), and no batch is empty.     *)
C11_BatchesPartitionRows ==
  pool # "none" =>
    /\ LimitPrefix
    /\ Flatten(batches) = rows
    /\ \A k \in 1..Len(batches) :
         /\ batches[k] # <<>>
         /\ batches[k] =
              SubSeq(rows, RowsBefore(k) + 1, RowsBefore(k) + Len(batches[k]))
    /\ RowsBefore(Len(batches) + 1) = Len(rows)

C11_Witness ==
  /\ pool # "none"
  /\ limit # 0 /\ limit < Len(csv_rows)
  /\ Len(batches) >= 2
  /\ rows[1] # rows[2]

\* the tool invocations that processing batches 1..k once each makes
RECURSIVE CallsOfBatches(_, _)
CallsOfBatches(k, tool) ==
  IF k = 0 THEN 0
  ELSE CallsOfBatches(k - 1, tool)
       + CountOf(process_batch(batches[k], bad_block_ids).calls, tool)

(* C12: every batch is taken off the queue by one worker, once: no batch  *)
(* is held by a worker after its result arrived or taken a second time,   *)
(* and when the pool is joined every batch was taken exactly once and the *)
(* tools were invoked exactly as often as one pass over every batch       *)
(* invokes them. A batch's result is the records of its rows in the order *)
(* of the batch, the rows that gave no record left out, and a row the     *)
(* filter rejects reaches no tool.                                        *)
C12_EachBatchOnce ==
  pool # "none" =>
    /\ \A k \in 1..Len(batches) :
         /\ taken[k] = (IF k <= next_task THEN 1 ELSE 0)
         /\ k \in running => taken[k] = 1 /\ cache[k].t = "pending"
         /\ cache[k].t # "pending" => taken[k] = 1
    /\ Cardinality(running) <= num_processes
    /\ pool = "joined" =>
         /\ \A k \in 1..Len(batches) :
              /\ taken[k] = 1
              /\ cache[k].t = "ok" => cache[k].v = RecordsOf(batches[k])
         /\ \A tool \in DOMAIN invoked :
              invoked[tool] = CallsOfBatches(Len(batches), tool)
         /\ \A i \in 1..Len(rows) :
              ~Admitted(rows[i]) =>
                process_block(rows[i], bad_block_ids).calls = <<>>

C12_Witness ==
  /\ pool = "joined"
  /\ Len(batches) >= 3
  /\ \E k \in 1..Len(batches) :
       /\ Len(batches[k]) >= 2
       /\ Len(cache[k].v) = 1
       /\ ~Admitted(batches[k][1])

\* what the inputs alone say the run returns: the records of the rows the
\* limit leaves, in row order; nothing when a row raises or the worker
\* count cannot be divided by
DatasetOfInputs ==
  LET rs == ApplyLimit(csv_rows, limit) IN
  IF rs # <<>> /\ DefaultProcesses(num_processes_arg, num_cpus) = 0
  THEN <<>> ELSE RunOver(rs)

(* C13: the run is deterministic: the dataset process_csv_parallel        *)
(* returns, and the records of the file once written, are a function of   *)
(* the rows, the limit, the bad set and the tools' behaviour only. Any    *)
(* two runs on the same inputs therefore give the same output, whichever  *)
(* workers took which batches and in whatever order they finished.        *)
C13_OutputFunctionOfInputs ==
  Returned =>
    /\ dataset = DatasetOfInputs
    /\ output_file.written =>
         output_file.data = SubSeq(DatasetOfInputs, 2, Len(DatasetOfInputs))

C13_Witness ==
  /\ pc = "done" /\ output_file.written
  /\ num_processes >= 2 /\ out_of_order
  /\ Len(dataset) >= 3 /\ dataset[1] # dataset[2]

(* C14 (stated as claimed; the code violates it): reading back the file   *)
(* save_dataset wrote gives, in order, as many records as the dataset it  *)
(* was passed, each with the same block id, throughput, assembly text and *)
(* token text.                                                            *)
C14_RoundTrip ==
  output_file.written =>
    /\ Len(output_file.data) = Len(dataset)
    /\ \A i \in 1..Len(dataset) :
         \A f \in 1..4 : output_file.data[i][f] = dataset[i][f]

\* os.makedirs was called and failed for a reason other than "exists"
MakedirsFailed(e) == ~e.dir_exists /\ e.mk \notin {"ok", "EEXIST"}

(* C15: whatever the file system does, save_dataset returns to main and   *)
(* leaves the dataset as process_csv_parallel returned it. When creating  *)
(* the directory fails for a reason other than its existing, that is      *)
(* reported and no write is attempted; a directory that turns out to      *)
(* exist is no error and the write goes ahead; a failed write is reported *)
(* and leaves no file.                                                    *)
C15_SaveErrorsContained ==
  saves # <<>> =>
    LET e == saves[1] IN
    /\ pc = "done"
    /\ error = "none" /\ dataset = Flatten(processed_results)
    /\ IF MakedirsFailed(e)
       THEN /\ "Error creating directory" \in diag
            /\ "Dataset saved" \notin diag
            /\ "Error saving dataset" \notin diag
            /\ ~output_file.written
       ELSE /\ "Error creating directory" \notin diag
            /\ IF e.wr = "ok"
               THEN output_file.written /\ "Dataset saved" \in diag
               ELSE ~output_file.written /\ "Error saving dataset" \in diag

C15_Witness ==
  /\ saves # <<>>
  /\ ~saves[1].dir_exists /\ saves[1].mk = "EEXIST" /\ saves[1].wr = "ok"
  /\ output_file.written

AdmittedRows == { i \in 1..Len(rows) : Admitted(rows[i]) }
\* the admitted rows whose disassembly is text that is not blank
DisassembledRows == { i \in AdmittedRows : ToolText(disasm[rows[i][1]]) }
NoBatchRaised == \A k \in 1..Len(batches) : cache[k].t = "ok"

(* C16 (stated as claimed; the code violates it): process_block on a row  *)
(* that passes the filter invokes the disassembler once and the tokenizer *)
(* once, whatever the outcome of the other; on a row the filter rejects   *)
(* it invokes neither.                                                    *)
C16_TwoInvocationsPerRow ==
  Returned =>
    \A i \in 1..Len(rows) :
      process_block(rows[i], bad_block_ids).calls =
        (IF Admitted(rows[i]) THEN <<"disasm", "tokenizer">> ELSE <<>>)

(* C16 (amended): process_block on a row that passes the filter invokes   *)
(* the disassembler once, and then the tokenizer once exactly when the    *)
(* disassembler returned text that is not blank; on a row the filter      *)
(* rejects it invokes neither. Over a run no tool is invoked more often   *)
(* than that, and exactly that often when no batch raised.                *)
C16_TokenizerOnlyAfterDisassembly ==
  /\ Returned =>
       \A i \in 1..Len(rows) :
         process_block(rows[i], bad_block_ids).calls =
           (IF ~Admitted(rows[i]) THEN <<>>
            ELSE IF ToolText(disasm[rows[i][1]])
            THEN <<"disasm", "tokenizer">> ELSE <<"disasm">>)
  /\ pool = "joined" =>
       /\ invoked["disasm"] <= Cardinality(AdmittedRows)
       /\ invoked["tokenizer"] <= Cardinality(DisassembledRows)
       /\ NoBatchRaised =>
            /\ invoked["disasm"] = Cardinality(AdmittedRows)
            /\ invoked["tokenizer"] = Cardinality(DisassembledRows)

C16_Witness ==
  /\ pool = "joined" /\ NoBatchRaised
  /\ Len(batches) >= 2
  /\ AdmittedRows # 1..Len(rows)
  /\ invoked["tokenizer"] >= 1
  /\ invoked["disasm"] > invoked["tokenizer"]

\* batch k reaches a tool call that never returns
BatchHangs(k) == process_batch(batches[k], bad_block_ids).t = "hang"
SomeBatchHangs == \E k \in 1..Len(batches) : BatchHangs(k)

(* C17 (stated as claimed; the code violates it): a run that has returned *)
(* from process_csv_parallel after creating the pool met no tool call     *)
(* that never returns, every one of its batches completed, and the        *)
(* controller collected the results of all len(batches) of them.          *)
C17_AllCollectedOnReturn ==
  Returned /\ pool # "none" =>
    /\ ~SomeBatchHangs
    /\ \A k \in 1..Len(batches) : cache[k].t # "pending"
    /\ Len(processed_results) = Len(batches)

(* C17, the part that holds: under fair scheduling a run whose tool calls *)
(* all return ends, with every batch completed and the pool joined.       *)
C17_Terminates ==
  (pc = "start") ~>
    \/ SomeBatchHangs
    \/ /\ pc = "done"
       /\ pool = "none" \/ (pool = "joined" /\ AllFinished)

(* C17, the part that holds: a batch that reaches a tool call which never *)
(* returns never completes, and process_csv_parallel never returns.       *)
C17_HangBlocks ==
  [](SomeBatchHangs =>
       /\ ~Returned
       /\ \A k \in 1..Len(batches) : BatchHangs(k) => cache[k].t = "pending")

\* a worker is stuck in a batch and the controller waits for its result
C17_HangWitness ==
  /\ SomeBatchHangs
  /\ \E k \in running : BatchHangs(k)
  /\ next_task = Len(batches)
  /\ \A k \in running : BatchHangs(k)
  /\ pc \in {"collect", "finally"}

\* a is b with some elements left out
RECURSIVE IsSubseq(_, _)
IsSubseq(a, b) ==
  IF a = <<>> THEN TRUE
  ELSE IF b = <<>> THEN FALSE
  ELSE IF Head(a) = Head(b) THEN IsSubseq(Tail(a), Tail(b))
  ELSE IsSubseq(a, Tail(b))

\* the block ids of the rows that have one, in row order
RECURSIVE RowIds(_)
RowIds(rs) ==
  IF rs = <<>> THEN <<>>
  ELSE (IF Len(Head(rs)) >= 1 THEN <<Head(rs)[1]>> ELSE <<>>)
       \o RowIds(Tail(rs))

DatasetIds == [ j \in 1..Len(dataset) |-> dataset[j][1] ]

(* C18: the block ids of the dataset returned are the block ids of the    *)
(* rows with some left out: the records keep the order of their rows      *)
(* across batches as well as within one, and the dataset is never longer  *)
(* than the row list.                                                     *)
C18_DatasetSubsequenceOfRows ==
  Returned =>
    /\ IsSubseq(DatasetIds, RowIds(rows))
    /\ Len(dataset) <= Len(rows)

C18_Witness ==
  /\ Returned /\ out_of_order
  /\ Len(batches) >= 3
  /\ Len(dataset) >= 2 /\ Len(dataset) < Len(rows)
  /\ dataset[1][1] # dataset[Len(dataset)][1]

(* C19 (stated as claimed; the code violates it): the worker count in     *)
(* effect is at least 1, defaulted or given, so the batch size            *)
(* computation never divides by zero, the batch size is positive, and     *)
(* rows that yield records are not turned into an empty dataset by the    *)
(* worker count.                                                          *)
C19_WorkerCountPositive ==
  pc # "start" =>
    /\ num_processes >= 1
    /\ error # "ZeroDivisionError"
    /\ pool # "none" => batch_size >= 1
    /\ Returned /\ RunOver(rows) # <<>> => dataset # <<>>

(* C20: save_dataset is called at most once in a run, and only after      *)
(* process_csv_parallel has returned a dataset that is not empty, with    *)
(* the pool joined and no worker left on a batch; a file is written only  *)
(* by that call, so a run whose dataset is empty ends with no call and    *)
(* the output file untouched.                                             *)
C20_SaveOnceAfterReturn ==
  /\ Len(saves) <= 1
  /\ saves # <<>> =>
       /\ pc = "done"
       /\ dataset # <<>>
       /\ pool = "joined" /\ running = {} /\ next_task = Len(batches)
  /\ output_file # Absent => saves # <<>>
  /\ pc = "done" /\ dataset = <<>> => saves = <<>> /\ output_file = Absent

C20_Witness ==
  /\ pc = "done" /\ Len(saves) = 1 /\ output_file.written
  /\ Len(batches) >= 2 /\ num_processes >= 2

====
